---- MODULE Spec2Model ----
(***************************************************************************)
(* Model of nnsmith/input_gen.py: the NaN checker (no_nan), the domain     *)
(* search of InputGenV3 (infer_domain, _get_range, binary_search) and the  *)
(* samplers (gen_one_input, gen_one_input_rngs).                           *)
(*                                                                         *)
(* Floats are fixed-point integers in units of 1/Unit.  Unit is a multiple *)
(* of 9 (the seed points k/9 are exact), of 1000 (EPS is exact) and of     *)
(* 2^16 (sixteen successive halvings of a window with endpoints on the     *)
(* seed grid are exact); beyond that a midpoint is rounded down, as a      *)
(* float midpoint is rounded to 53 bits.                                   *)
(***************************************************************************)
EXTENDS Integers, Sequences, FiniteSets, TLC

VARIABLES pc, model_loaded, nan_checker, valid_rngs, idx, ret, log,
          dec, bs, np_random, lastCall, prevCall

vars == <<pc, model_loaded, nan_checker, valid_rngs, idx, ret, log,
          dec, bs, np_random, lastCall, prevCall>>

(***************************************************************************)
(* Numbers                                                                 *)
(***************************************************************************)
Unit == 9 * 125 * 65536

\* InputGenV3.L, InputGenV3.R, InputGenV3.EPS (1e-3)
L == -10 * Unit
R == 10 * Unit
EPS == Unit \div 1000

\* np.linspace(-1, 1, 10)
NumSeeds == 10
a == [k \in 1..NumSeeds |-> (2 * Unit * (k - 1)) \div (NumSeeds - 1) - Unit]

\* ORTNaNChecker: THRES and the default of max_rng_trials
THRES == 1
max_rng_trials == 3

(***************************************************************************)
(* Bounds of the model                                                     *)
(***************************************************************************)
\* accepting answers a stochastic checker gives during one infer_domain
MaxAccepts == 3
\* length of the answer stream a checker gives to one binary_search
MaxCalls == 15
\* the band checkers are true on [-a, a], a = k/BandDiv, 0 < k < BandDiv
BandDiv == 16
\* output tensors of the model under test
NumOutputs == 2
\* the binary_search inputs lie on a grid of Unit/BSDiv
BSDiv == 2
\* states of the process-wide random generator, explicit seeds 0..MaxSeed
RngMod == 8
MaxSeed == 1

Abs(x) == IF x < 0 THEN -x ELSE x

(***************************************************************************)
(* has_nan and ORTNaNChecker.no_nan                                        *)
(*                                                                         *)
(* An output tensor is the set of the kinds of values it holds; an output  *)
(* is a sequence of NumOutputs tensors; outs is the sequence of outputs    *)
(* rf_exe.predict would give on the successive trials (the inputs drawn by *)
(* gen_one_input in [l, r] decide them; here they are arbitrary).          *)
(***************************************************************************)
Tensors == {{"num"}, {"num", "nan"}, {"num", "inf"}, {"num", "nan", "inf"}}
Outputs == [1..NumOutputs -> Tensors]

\* variant: Inf is looked for as well
isnan_or_isinf_any(o) == "nan" \in o \/ "inf" \in o

\* np.isnan(o).any()
isnan_any(o) == "nan" \in o

has_nan(output) == \E k \in DOMAIN output : isnan_any(output[k])

\* variant: no fast failure, the ratio is judged after the last trial only
RECURSIVE no_nan_loop_late(_, _, _)
no_nan_loop_late(outs, ntrials, succ) ==
    IF ntrials >= max_rng_trials
    THEN [ret |-> succ >= THRES * max_rng_trials, execs |-> ntrials, succ |-> succ]
    ELSE no_nan_loop_late(outs, ntrials + 1,
                          succ + (IF has_nan(outs[ntrials + 1]) THEN 0 ELSE 1))

\* the loop of no_nan from trial number ntrials (0-based) with succ successes
RECURSIVE no_nan_loop(_, _, _)
no_nan_loop(outs, ntrials, succ) ==
    IF ntrials >= max_rng_trials
    THEN [ret |-> TRUE, execs |-> ntrials, succ |-> succ]
    ELSE LET succ1 == succ + (IF has_nan(outs[ntrials + 1]) THEN 0 ELSE 1)
             remain == max_rng_trials - ntrials - 1
         IN  IF succ1 + remain < THRES * max_rng_trials
             THEN [ret |-> FALSE, execs |-> ntrials + 1, succ |-> succ1]
             ELSE no_nan_loop(outs, ntrials + 1, succ1)

no_nan(outs) == no_nan_loop(outs, 0, 0)

\* the answers no_nan can give
Decisions == {no_nan(o).ret : o \in [1..max_rng_trials -> Outputs]}

(***************************************************************************)
(* The checker injected into InputGenV3 and its callbacks                  *)
(*                                                                         *)
(* kind "any":  a stochastic checker; oracle holds the answers it gives at *)
(*              each call site of one seed step.                           *)
(* kind "band": deterministic, true exactly when -a <= l <= r <= a.        *)
(***************************************************************************)
nan_checker_no_nan(nc, oracle, site, k, lo, hi) ==
    IF nc.kind = "band"
    THEN (-nc.a <= lo) /\ (lo <= hi) /\ (hi <= nc.a)
    ELSE CASE site = "seed" -> oracle.seed
           [] site = "ext" -> oracle.ext
           [] site = "left" -> oracle.left[k]
           [] site = "right" -> oracle.right[k]

\* the k-th call of a callback at point x; the entry it leaves in the log
\*   "left":  lambda l: no_nan(l, valid_point)
\*   "right": lambda r: no_nan(l, -r)
\*   "mono":  a predicate false below t and true from t on
checker_call(cb, x, k, nc, oracle) ==
    CASE cb.site = "left" ->
           [lo |-> x, hi |-> cb.fixed,
            ans |-> nan_checker_no_nan(nc, oracle, "left", k, x, cb.fixed)]
      [] cb.site = "right" ->
           [lo |-> cb.fixed, hi |-> -x,
            ans |-> nan_checker_no_nan(nc, oracle, "right", k, cb.fixed, -x)]
      [] cb.site = "mono" ->
           [lo |-> x, hi |-> x, ans |-> x >= cb.fixed]

(***************************************************************************)
(* binary_search                                                           *)
(***************************************************************************)
\* variant: the loop runs until the window is below EPS / 4
RECURSIVE bs_loop_tight(_, _, _, _, _, _, _)
bs_loop_tight(l, r, cb, return_on_first, nc, oracle, qs) ==
    IF r - l > EPS \div 4
    THEN LET mid == (l + r) \div 2
             c == checker_call(cb, mid, Len(qs) + 1, nc, oracle)
         IN  IF c.ans
             THEN IF return_on_first
                  THEN [ret |-> mid, qs |-> Append(qs, c)]
                  ELSE bs_loop_tight(l, mid, cb, return_on_first, nc, oracle,
                                     Append(qs, c))
             ELSE bs_loop_tight(mid, r, cb, return_on_first, nc, oracle,
                                Append(qs, c))
    ELSE [ret |-> r, qs |-> qs]

\* variant: an exhausted loop returns l, the last rejected point
RECURSIVE bs_loop_left(_, _, _, _, _, _, _)
bs_loop_left(l, r, cb, return_on_first, nc, oracle, qs) ==
    IF r - l > EPS
    THEN LET mid == (l + r) \div 2
             c == checker_call(cb, mid, Len(qs) + 1, nc, oracle)
         IN  IF c.ans
             THEN IF return_on_first
                  THEN [ret |-> mid, qs |-> Append(qs, c)]
                  ELSE bs_loop_left(l, mid, cb, return_on_first, nc, oracle,
                                    Append(qs, c))
             ELSE bs_loop_left(mid, r, cb, return_on_first, nc, oracle,
                               Append(qs, c))
    ELSE [ret |-> l, qs |-> qs]

\* the while loop; qs are the checker calls made so far
RECURSIVE bs_loop(_, _, _, _, _, _, _)
bs_loop(l, r, cb, return_on_first, nc, oracle, qs) ==
    IF r - l > EPS
    THEN LET mid == (l + r) \div 2
             c == checker_call(cb, mid, Len(qs) + 1, nc, oracle)
         IN  IF c.ans
             THEN IF return_on_first
                  THEN [ret |-> mid, qs |-> Append(qs, c)]
                  ELSE bs_loop(l, mid, cb, return_on_first, nc, oracle,
                               Append(qs, c))
             ELSE bs_loop(mid, r, cb, return_on_first, nc, oracle,
                          Append(qs, c))
    ELSE [ret |-> r, qs |-> qs]

binary_search(l, r, cb, return_on_first, nc, oracle) ==
    IF l = r
    THEN [ret |-> l, qs |-> <<>>]
    ELSE LET c == checker_call(cb, l, 1, nc, oracle)
         IN  IF c.ans
             THEN [ret |-> l, qs |-> <<c>>]
             ELSE bs_loop(l, r, cb, return_on_first, nc, oracle, <<c>>)

(***************************************************************************)
(* One iteration of the loop of _get_range over the seed points            *)
(***************************************************************************)
included(rngs, valid_point) ==
    \E k \in DOMAIN rngs : rngs[k][1] <= valid_point /\ valid_point <= rngs[k][2]

\* variant: the previous range is left as it is
expand_last_kept(rngs, valid_point) == rngs

\* try expand previous range
expand_last(rngs, valid_point) ==
    [rngs EXCEPT ![Len(rngs)] = <<rngs[Len(rngs)][1], valid_point>>]

\* a new range around valid_point
new_range(rngs, valid_point, nc, oracle) ==
    LET last_r == IF Len(rngs) = 0 THEN L ELSE rngs[Len(rngs)][2]
        lres == binary_search(last_r, valid_point,
                              [site |-> "left", fixed |-> valid_point],
                              TRUE, nc, oracle)
        l == lres.ret
        rres == binary_search(-R, -valid_point,
                              [site |-> "right", fixed |-> l],
                              TRUE, nc, oracle)
        r == -rres.ret
    IN  [rngs |-> Append(rngs, <<l, r>>), qs |-> lres.qs \o rres.qs]

seed_step(rngs, valid_point, nc, oracle) ==
    IF included(rngs, valid_point)
    THEN [rngs |-> rngs, qs |-> <<>>]
    ELSE LET sq == [lo |-> valid_point, hi |-> valid_point,
                    ans |-> nan_checker_no_nan(nc, oracle, "seed", 1,
                                               valid_point, valid_point)]
         IN  IF ~sq.ans
             THEN [rngs |-> rngs, qs |-> <<sq>>]
             ELSE IF Len(rngs) = 0
                  THEN LET n == new_range(rngs, valid_point, nc, oracle)
                       IN  [rngs |-> n.rngs, qs |-> <<sq>> \o n.qs]
                  ELSE LET eq == [lo |-> rngs[Len(rngs)][1], hi |-> valid_point,
                                  ans |-> nan_checker_no_nan(nc, oracle, "ext", 1,
                                              rngs[Len(rngs)][1], valid_point)]
                       IN  IF eq.ans
                           THEN [rngs |-> expand_last(rngs, valid_point),
                                 qs |-> <<sq, eq>>]
                           ELSE LET n == new_range(rngs, valid_point, nc, oracle)
                                IN  [rngs |-> n.rngs, qs |-> <<sq, eq>> \o n.qs]

(***************************************************************************)
(* InputGenV3.infer_domain and _get_range as a state machine               *)
(*   pc:           "start", "loaded", "search", "done"                     *)
(*   model_loaded: load_model has bound the checker to the model           *)
(*   valid_rngs:   the list _get_range builds; idx: the next seed point    *)
(*   ret:          what infer_domain returns                               *)
(*   log:          the no_nan queries made, in order, with their answers   *)
(***************************************************************************)
Pending == [kind |-> "pending", rngs |-> <<>>]
None == [kind |-> "None", rngs |-> <<>>]
List(rngs) == [kind |-> "list", rngs |-> rngs]

Accepts(qs) == Cardinality({k \in DOMAIN qs : qs[k].ans})

\* the answer stream whose t-th answer is the first (and only) accepting one;
\* binary_search is always called with return_on_first, so it reads no answer
\* after the first accepting one
Stream(t) == [k \in 1..MaxCalls |-> IF k = t THEN TRUE ELSE FALSE]

NoOracle == [seed |-> FALSE, ext |-> FALSE, left |-> Stream(0), right |-> Stream(0)]

\* the answers a checker may give during one seed step: the band checker's
\* are fixed by the query; a stochastic checker's are arbitrary, within the
\* budget of accepting answers (answers to queries never made are FALSE)
Oracles(nc, rngs, budget) ==
    IF nc.kind = "band"
    THEN {NoOracle}
    ELSE {[seed |-> o.seed, ext |-> o.ext,
           left |-> Stream(o.tl), right |-> Stream(o.tr)] :
          o \in {x \in [seed : Decisions, ext : Decisions,
                        tl : 0..MaxCalls, tr : 0..MaxCalls] :
                   /\ (~x.seed => ~x.ext /\ x.tl = 0 /\ x.tr = 0)
                   /\ (x.ext => Len(rngs) > 0 /\ x.tl = 0 /\ x.tr = 0)
                   /\ (IF x.seed THEN 1 ELSE 0) + (IF x.ext THEN 1 ELSE 0)
                      + (IF x.tl > 0 THEN 1 ELSE 0)
                      + (IF x.tr > 0 THEN 1 ELSE 0) <= budget}}

IdleRest ==
    /\ dec = [state |-> "idle"]
    /\ bs = [state |-> "idle"]
    /\ np_random = 0
    /\ lastCall = [state |-> "idle"]
    /\ prevCall = [state |-> "idle"]

InitInfer ==
    /\ pc = "start"
    /\ model_loaded = FALSE
    /\ valid_rngs = <<>>
    /\ idx = 1
    /\ ret = Pending
    /\ log = <<>>
    /\ IdleRest

\* nan_checker.load_model(model)
LoadModel ==
    /\ pc = "start"
    /\ model_loaded' = TRUE
    /\ pc' = "loaded"
    /\ UNCHANGED <<nan_checker, valid_rngs, idx, ret, log,
                   dec, bs, np_random, lastCall, prevCall>>

\* variant: _get_range runs whatever no_nan(0, 1) answers
FastPath_fallthrough ==
    /\ pc = "loaded"
    /\ \E o \in Oracles(nan_checker, <<>>, MaxAccepts) :
         LET q == [lo |-> 0, hi |-> Unit,
                   ans |-> nan_checker_no_nan(nan_checker, o, "seed", 1, 0, Unit)]
         IN  /\ o.left = Stream(0) /\ o.right = Stream(0)
             /\ log' = Append(log, q)
    /\ pc' = "search"
    /\ valid_rngs' = <<>>
    /\ idx' = 1
    /\ UNCHANGED <<ret, model_loaded, nan_checker, dec, bs, np_random,
                   lastCall, prevCall>>

\* if self.nan_checker.no_nan(0, 1): rngs = [(0, 1)] else: _get_range()
FastPath ==
    /\ pc = "loaded"
    /\ \E o \in Oracles(nan_checker, <<>>, MaxAccepts) :
         LET q == [lo |-> 0, hi |-> Unit,
                   ans |-> nan_checker_no_nan(nan_checker, o, "seed", 1, 0, Unit)]
         IN  /\ o.left = Stream(0) /\ o.right = Stream(0)
             /\ log' = Append(log, q)
             /\ IF q.ans
                THEN /\ ret' = List(<<(<<0, Unit>>)>>)
                     /\ pc' = "done"
                ELSE /\ ret' = ret
                     /\ pc' = "search"
    /\ valid_rngs' = <<>>
    /\ idx' = 1
    /\ UNCHANGED <<model_loaded, nan_checker, dec, bs, np_random, lastCall, prevCall>>

\* for valid_point in a: ...
ProcessSeed ==
    /\ pc = "search"
    /\ idx <= NumSeeds
    /\ \E o \in Oracles(nan_checker, valid_rngs, MaxAccepts - Accepts(log)) :
         LET res == seed_step(valid_rngs, a[idx], nan_checker, o)
         IN  /\ valid_rngs' = res.rngs
             /\ log' = log \o res.qs
    /\ idx' = idx + 1
    /\ UNCHANGED <<pc, model_loaded, nan_checker, ret, dec, bs, np_random,
                   lastCall, prevCall>>

\* variant: the empty list is returned as it is
GetRangeReturn_list ==
    /\ pc = "search"
    /\ idx > NumSeeds
    /\ ret' = List(valid_rngs)
    /\ pc' = "done"
    /\ UNCHANGED <<model_loaded, nan_checker, valid_rngs, idx, log,
                   dec, bs, np_random, lastCall, prevCall>>

\* if len(valid_rngs) == 0: valid_rngs = None; return valid_rngs
GetRangeReturn ==
    /\ pc = "search"
    /\ idx > NumSeeds
    /\ ret' = IF Len(valid_rngs) = 0 THEN None ELSE List(valid_rngs)
    /\ pc' = "done"
    /\ UNCHANGED <<model_loaded, nan_checker, valid_rngs, idx, log,
                   dec, bs, np_random, lastCall, prevCall>>

NextInfer == LoadModel \/ FastPath \/ ProcessSeed \/ GetRangeReturn

\* infer_domain with a stochastic checker (ORTNaNChecker)
Init == InitInfer /\ nan_checker = [kind |-> "any", a |-> 0]
Spec == Init /\ [][NextInfer]_vars

\* infer_domain with a deterministic checker true exactly on [-a, a]
BandWidths == {k * (Unit \div BandDiv) : k \in 1..(BandDiv - 1)}
InitBand == InitInfer /\ nan_checker \in [kind : {"band"}, a : BandWidths]
SpecBand == InitBand /\ [][NextInfer]_vars

(***************************************************************************)
(* np.random: the process-wide generator, a state in 0..RngMod-1           *)
(***************************************************************************)
rng_next(g) == (5 * g + 3) % RngMod

\* np.random.seed(seed)
rng_seed(seed) == (3 * seed + 1) % RngMod

\* one value of np.random.uniform(low=l, high=r), drawn in state g
uniform(l, r, g) == l + ((r - l) \div RngMod) * g

\* np.random.randint(n), drawn in state g; n <= 0 raises ValueError
randint(n, g) == g % n

\* the values of one tensor of `size` elements
RECURSIVE draw_tensor(_, _, _, _, _)
draw_tensor(size, l, r, g, vals) ==
    IF Len(vals) >= size
    THEN [vals |-> vals, g |-> g]
    ELSE draw_tensor(size, l, r, rng_next(g), Append(vals, uniform(l, r, g)))

\* for name, shape in inp_spec.items(): inp[name] = np.random.uniform(...)
RECURSIVE fill_inputs(_, _, _, _, _)
fill_inputs(inp_spec, l, r, g, inp) ==
    IF Len(inp) >= Len(inp_spec)
    THEN [inp |-> inp, g |-> g]
    ELSE LET t == draw_tensor(inp_spec[Len(inp) + 1], l, r, g, <<>>)
         IN  fill_inputs(inp_spec, l, r, t.g, Append(inp, t.vals))

\* seed is <<>> (None) or <<s>>; inp_spec is the sequence of the tensors'
\* element counts
gen_one_input(inp_spec, l, r, seed, g) ==
    fill_inputs(inp_spec, l, r,
                IF seed # <<>> THEN rng_seed(seed[1]) ELSE g, <<>>)

\* rngs is None or List(ranges); the range is chosen before gen_one_input
\* is entered
gen_one_input_rngs(inp_spec, rngs, seed, g) ==
    LET rngs1 == IF rngs.kind = "None" THEN <<(<<0, Unit>>)>> ELSE rngs.rngs
    IN  IF Len(rngs1) = 0
        THEN [err |-> "ValueError", rng |-> <<>>, inp |-> <<>>, g |-> g]
        ELSE LET rng == rngs1[randint(Len(rngs1), g) + 1]
                 res == gen_one_input(inp_spec, rng[1], rng[2], seed, rng_next(g))
             IN  [err |-> "none", rng |-> rng, inp |-> res.inp, g |-> res.g]

(***************************************************************************)
(* ORTNaNChecker.no_nan on a bound model                                   *)
(***************************************************************************)
\* the InputSpec derived by load_model: two tensors of 1 and 2 elements
InputSpecs == {<<1, 2>>}

\* the generator after the inputs of `execs` trials were drawn
RECURSIVE after_trials(_, _, _, _, _)
after_trials(inp_spec, l, r, execs, g) ==
    IF execs = 0
    THEN g
    ELSE after_trials(inp_spec, l, r, execs - 1,
                      gen_one_input(inp_spec, l, r, <<>>, g).g)

InitDecide ==
    /\ pc = "start"
    /\ model_loaded = FALSE
    /\ nan_checker = [kind |-> "any", a |-> 0]
    /\ valid_rngs = <<>>
    /\ idx = 1
    /\ ret = Pending
    /\ log = <<>>
    /\ dec = [state |-> "idle"]
    /\ bs = [state |-> "idle"]
    /\ np_random = 0
    /\ lastCall = [state |-> "idle"]
    /\ prevCall = [state |-> "idle"]

\* no_nan(0, 1): the trials' outputs are whatever the executor gives
NoNan ==
    /\ pc = "loaded"
    /\ dec.state = "idle"
    /\ \E outs \in [1..max_rng_trials -> Outputs], inp_spec \in InputSpecs :
         LET res == no_nan(outs)
         IN  /\ dec' = [state |-> "returned", outs |-> outs, ret |-> res.ret,
                        execs |-> res.execs, succ |-> res.succ]
             /\ np_random' = after_trials(inp_spec, 0, Unit, res.execs, np_random)
    /\ UNCHANGED <<pc, model_loaded, nan_checker, valid_rngs, idx, ret, log,
                   bs, lastCall, prevCall>>

NextDecide == LoadModel \/ NoNan
SpecDecide == InitDecide /\ [][NextDecide]_vars

(***************************************************************************)
(* binary_search on monotone predicates                                    *)
(***************************************************************************)
BSPoints ==
    {L, R, EPS \div 2, EPS, 3 * EPS}
        \cup {k * (Unit \div BSDiv) : k \in (-BSDiv)..BSDiv}

InitBS == InitInfer /\ nan_checker = [kind |-> "any", a |-> 0]

\* binary_search(l, r, checker, return_on_first) with l <= r and a checker
\* false below t and true from t on, t <= r
BinarySearchCall ==
    /\ bs.state = "idle"
    /\ \E l \in BSPoints, r \in BSPoints, t \in BSPoints,
          return_on_first \in BOOLEAN :
         /\ l <= r
         /\ t <= r
         /\ LET res == binary_search(l, r, [site |-> "mono", fixed |-> t],
                                     return_on_first, nan_checker, NoOracle)
            IN  bs' = [state |-> "returned", l |-> l, r |-> r, t |-> t,
                       return_on_first |-> return_on_first,
                       ret |-> res.ret, ncalls |-> Len(res.qs)]
    /\ UNCHANGED <<pc, model_loaded, nan_checker, valid_rngs, idx, ret, log,
                   dec, np_random, lastCall, prevCall>>

NextBS == BinarySearchCall
SpecBS == InitBS /\ [][NextBS]_vars

(***************************************************************************)
(* gen_one_input_rngs, called again and again in one process               *)
(***************************************************************************)
RangeSets ==
    {None, List(<<>>), List(<<(<<0, Unit>>)>>),
     List(<<(<<-Unit, -(Unit \div 2)>>), (<<Unit \div 2, Unit>>)>>)}

Seeds == {<<>>} \cup {<<s>> : s \in 0..MaxSeed}

InitSample ==
    /\ pc = "start"
    /\ model_loaded = FALSE
    /\ nan_checker = [kind |-> "any", a |-> 0]
    /\ valid_rngs = <<>>
    /\ idx = 1
    /\ ret = Pending
    /\ log = <<>>
    /\ dec = [state |-> "idle"]
    /\ bs = [state |-> "idle"]
    /\ np_random \in 0..(RngMod - 1)
    /\ lastCall = [state |-> "idle"]
    /\ prevCall = [state |-> "idle"]

Sample ==
    /\ \E inp_spec \in InputSpecs, rngs \in RangeSets, seed \in Seeds :
         LET res == gen_one_input_rngs(inp_spec, rngs, seed, np_random)
         IN  /\ lastCall' = [state |-> "returned", inp_spec |-> inp_spec,
                             rngs |-> rngs, seed |-> seed, err |-> res.err,
                             rng |-> res.rng, inp |-> res.inp]
             /\ np_random' = res.g
    /\ prevCall' = lastCall
    /\ UNCHANGED <<pc, model_loaded, nan_checker, valid_rngs, idx, ret, log,
                   dec, bs>>

\* any other draw from the process-wide generator (gen_one_input without a
\* seed, as no_nan calls it)
OtherDraw ==
    /\ np_random' = rng_next(np_random)
    /\ UNCHANGED <<pc, model_loaded, nan_checker, valid_rngs, idx, ret, log,
                   dec, bs, lastCall, prevCall>>

NextSample == Sample \/ OtherDraw
SpecSample == InitSample /\ [][NextSample]_vars

(***************************************************************************)
(* Properties                                                              *)
(***************************************************************************)
Consecutive(rngs) == {k \in DOMAIN rngs : k + 1 \in DOMAIN rngs}

\* C1: with a stochastic checker, the list _get_range builds and the list
\* infer_domain returns are sorted ascending by low and pairwise disjoint as
\* inclusive intervals: consecutive ranges (l1, h1), (l2, h2) have h1 < l2.
C1_SortedDisjoint ==
    /\ \A k \in Consecutive(valid_rngs) :
         /\ valid_rngs[k][1] < valid_rngs[k + 1][1]
         /\ valid_rngs[k][2] < valid_rngs[k + 1][1]
    /\ \A k \in Consecutive(ret.rngs) :
         /\ ret.rngs[k][1] < ret.rngs[k + 1][1]
         /\ ret.rngs[k][2] < ret.rngs[k + 1][1]

\* trial k of the finished no_nan call gave no NaN in any output tensor
NanFree(k) == \A j \in DOMAIN dec.outs[k] : "nan" \notin dec.outs[k][j]
Successes(k) == Cardinality({j \in 1..k : NanFree(j)})
\* after trial k the best possible final ratio is below THRES
RatioBelow(k) == Successes(k) + (max_rng_trials - k) < THRES * max_rng_trials
FirstOf(S) == CHOOSE k \in S : \A j \in S : k <= j

\* C2: no_nan runs at most max_rng_trials executions; it returns false at the
\* first trial after which (successes + remaining) / max_rng_trials < THRES and
\* runs no further execution; if all trials complete it returns true iff
\* successes / max_rng_trials >= THRES.  With THRES = 1: true iff every trial
\* is NaN-free, and otherwise the executions performed equal the index of the
\* first NaN-producing trial.
C2_FailFast ==
    dec.state = "returned" =>
        LET N == max_rng_trials
            below == {k \in 1..N : RatioBelow(k)}
            nans == {k \in 1..N : ~NanFree(k)}
        IN  /\ dec.execs \in 1..N
            /\ below # {} => ~dec.ret /\ dec.execs = FirstOf(below)
            /\ below = {} => /\ dec.execs = N
                             /\ dec.ret = (Successes(N) >= THRES * N)
            /\ dec.ret = (nans = {})
            /\ nans # {} => dec.execs = FirstOf(nans)

C2_Witness ==
    /\ dec.state = "returned"
    /\ ~dec.ret
    /\ dec.execs = 2
    /\ NanFree(1) /\ ~NanFree(2) /\ NanFree(3)

SeedsInside == {k \in 1..NumSeeds : -nan_checker.a <= a[k] /\ a[k] <= nan_checker.a}
SeedSpacing == (2 * Unit) \div (NumSeeds - 1)

C4_FastPath ==
    /\ log # <<>> => model_loaded /\ log[1].lo = 0 /\ log[1].hi = Unit
    /\ (log # <<>> /\ log[1].ans) =>
          /\ Len(log) = 1
          /\ pc = "done"
          /\ ret = List(<<(<<0, Unit>>)>>)
          /\ valid_rngs = <<>>

C4_Witness == pc = "done" /\ Len(log) = 1 /\ log[1].ans /\ ret.kind = "list"

\* C5: infer_domain returns None exactly when no_nan(0, 1) is false and
\* no_nan(p, p) is false for every one of the 10 seed points; in every other
\* case it returns a non-empty list, never an empty one.
C5_NoneIffNothingAccepted ==
    pc = "done" =>
        /\ ret.kind \in {"None", "list"}
        /\ ret.kind = "list" => Len(ret.rngs) >= 1
        /\ (ret = None) =
             (/\ Len(log) = 1 + NumSeeds
              /\ ~log[1].ans
              /\ \A k \in 1..NumSeeds :
                   log[k + 1] = [lo |-> a[k], hi |-> a[k], ans |-> FALSE])

C5_Witness == pc = "done" /\ ret = None /\ Len(log) = 1 + NumSeeds

\* C7 (as claimed): a trial is a success only if no output tensor holds NaN
\* or Inf, so no_nan returns false when some trial's output holds an Inf.
C7_InfRejected ==
    dec.state = "returned" =>
        ((\E k \in 1..dec.execs : \E j \in DOMAIN dec.outs[k] :
             "inf" \in dec.outs[k][j]) => ~dec.ret)

\* C7 (amended): a trial is a success iff no output tensor holds NaN; Inf
\* values are not looked at, so no_nan returns true whenever no trial's
\* output holds NaN, also when outputs hold Inf.
C7_OnlyNaNRejected ==
    dec.state = "returned" =>
        /\ dec.succ = Successes(dec.execs)
        /\ (\A k \in 1..max_rng_trials : NanFree(k)) => dec.ret

C7_Witness ==
    /\ dec.state = "returned"
    /\ dec.ret
    /\ \A k \in 1..max_rng_trials : "inf" \in dec.outs[k][1]

\* ceil(log2(w / EPS)) for a window w > EPS, and 0 for w <= EPS (where the
\* logarithm is <= 0)
RECURSIVE CeilLog2OverEps(_)
CeilLog2OverEps(w) == IF w <= EPS THEN 0 ELSE 1 + CeilLog2OverEps((w + 1) \div 2)

\* C8 (as claimed): binary_search(l, r, checker) with l <= r on a monotone
\* predicate makes at most ceil(log2((r - l) / EPS)) checker calls, the call
\* on the left endpoint included, and no call when l = r.
C8_CallsWithinLog ==
    bs.state = "returned" =>
        /\ bs.l = bs.r => bs.ncalls = 0
        /\ bs.l < bs.r => bs.ncalls <= CeilLog2OverEps(bs.r - bs.l)

\* C8 (amended): binary_search(l, r, checker) with l <= r on a monotone
\* predicate makes at most 1 + max(0, ceil(log2((r - l) / EPS))) checker
\* calls (the call on the left endpoint, then one per halving), and no call
\* when l = r.
C8_CallsWithinLogPlusOne ==
    bs.state = "returned" =>
        /\ bs.l = bs.r => bs.ncalls = 0
        /\ bs.l < bs.r => bs.ncalls \in 1..(1 + CeilLog2OverEps(bs.r - bs.l))

C8_Witness ==
    /\ bs.state = "returned"
    /\ bs.r - bs.l > EPS
    /\ bs.l < bs.t
    /\ bs.ncalls = 1 + CeilLog2OverEps(bs.r - bs.l)

Accepted(rng) ==
    \E j \in DOMAIN log : log[j] = [lo |-> rng[1], hi |-> rng[2], ans |-> TRUE]

\* C9: every range (low, high) of the list under construction and of the list
\* infer_domain returns was accepted during the invocation: some query
\* no_nan(low, high) with exactly these endpoints answered true.
C9_RangesAccepted ==
    /\ \A k \in DOMAIN valid_rngs : Accepted(valid_rngs[k])
    /\ \A k \in DOMAIN ret.rngs : Accepted(ret.rngs[k])

\* a returned range both of whose bounds were found by bisection
C9_Witness ==
    /\ pc = "done"
    /\ Len(log) > 1
    /\ \E k \in DOMAIN ret.rngs : \E s \in 1..NumSeeds :
         ret.rngs[k][1] < a[s] /\ a[s] < ret.rngs[k][2]

\* C6: gen_one_input_rngs given a non-empty list samples from one of its
\* ranges; given None or an empty list it samples from the default range
\* (0, 1), without raising an error.
C6_FallbackOnNoneOrEmpty ==
    lastCall.state = "returned" =>
        /\ lastCall.err = "none"
        /\ IF lastCall.rngs.rngs = <<>>
           THEN lastCall.rng = <<0, Unit>>
           ELSE \E k \in DOMAIN lastCall.rngs.rngs :
                  lastCall.rng = lastCall.rngs.rngs[k]

\* C10: two calls of gen_one_input_rngs with the same InputSpec, the same
\* list of two or more ranges and the same explicit seed return the same
\* mapping, whatever the state of the process-wide generator.
C10_SeededReproducible ==
    (/\ lastCall.state = "returned"
     /\ prevCall.state = "returned"
     /\ lastCall.seed # <<>>
     /\ Len(lastCall.rngs.rngs) >= 2
     /\ lastCall.inp_spec = prevCall.inp_spec
     /\ lastCall.rngs = prevCall.rngs
     /\ lastCall.seed = prevCall.seed)
        => lastCall.inp = prevCall.inp

====
